---- MODULE Spec2Model ----
(***************************************************************************)
(* Session registry and streaming-event core of src-tauri: the PTY        *)
(* session manager (pty.rs) and the filesystem watch manager (watcher.rs). *)
(* Caller threads invoke the tauri commands concurrently; every PTY       *)
(* session has its own read-loop thread; every native watcher has the     *)
(* backend's notification thread running its callback.                     *)
(*                                                                         *)
(* A thread's steps are cut at the points where it waits (a mutex, an OS   *)
(* call) or acts on what other threads see (the maps, the counters, the    *)
(* channels, the pty); what a thread does on its own locals between two    *)
(* such points belongs to the step that follows.                           *)
(***************************************************************************)
EXTENDS Integers, Sequences, FiniteSets, TLC

\* ------------------------------------------------------------------ bounds
NumCallers == 2
MaxSessions == 2
\* commands invoked, over both managers
MaxCalls == 3
\* non-empty reads of the read loops, over all sessions
MaxReads == 2
MaxWatches == 2
\* raw notifications (events and errors) delivered to callbacks
MaxRaw == 2
\* commands, non-empty reads and raw notifications together
MaxSteps == 4

Callers == 1..NumCallers
Ids == 1..MaxSessions
\* ids a caller may pass; MaxSessions + 1 is never allocated
ArgIds == 1..(MaxSessions + 1)
\* byte sequences a caller may write
Datas == {<<1, 2>>, <<3>>}
\* child.process_id(): Option<u32>, up to the value of the pid
PidOpts == {"None", "Some"}
\* the fallible steps of create_pty, in program order
CreateFailures == {"openpty", "spawn", "take_writer", "clone_reader"}

\* watcher objects, in the order RecommendedWatcher::new built them
Handles == 1..MaxWatches
\* ids a caller may pass to unwatch_directory
WatchArgIds == 1..(MaxWatches + 1)
\* paths a raw event may name, and what Path::extension gives for each
Paths == {"a.md", "b.MD", "c.txt", "Makefile"}
\* extension lists a caller may configure
ExtLists == {<<>>, <<"MD">>}
\* notify::EventKind: Create(_), Modify(_), Remove(_), and the others
Kinds == {"Create", "Modify", "Remove", "Access"}
\* the fallible steps of watch_directory, in program order
WatchFailures == {"is_dir", "new", "watch"}

Caller(t) == <<"caller", t>>
Reader(id) == <<"reader", id>>
NoThread == <<"none", 0>>

VARIABLES
    instances,   \* PtyManager.instances: registered id -> PtyInstance
    next_id,     \* PtyManager.next_id
    instHolder,  \* thread holding the instances mutex
    idHolder,    \* thread holding the next_id mutex
    pc,          \* caller thread -> position in its current command
    call,        \* caller thread -> its (last) command's arguments and locals
    result,      \* caller thread -> what its last command returned
    rl,          \* session id -> position of its read-loop thread
    nreads,      \* session id -> number of non-empty reads so far
    events,      \* session id -> events sent on its channel, in order
    ended,       \* session id -> child exited or pty resources dropped
    ptyIn,       \* session id -> bytes the pty received from the writer
    ncalls,      \* number of commands invoked so far
    allocated,   \* history: ids in the order next_id handed them out
    inserted,    \* history: ids ever inserted into instances
    createdRet,  \* history: ids create_pty has returned, in return order
    killed,      \* history: registered ids for which kill_pty has returned
    writeLog,    \* history: id -> the writes that found it, in lock order
    watchers,    \* WatcherManager.watchers: registered id -> watcher object
    wnext_id,    \* WatcherManager.next_id
    wHolder,     \* thread holding the watchers mutex
    widHolder,   \* thread holding the watch manager's next_id mutex
    wst,         \* watcher object -> "none", "watching" or "dropped"
    wext,        \* watcher object -> ext_set its callback captured
    wconf,       \* history: watcher object -> the extensions argument
    cb,          \* watcher object -> the callback invocation in progress
    nraw,        \* raw events and errors the backends delivered so far
    raws,        \* history: watcher object -> what its callback was given
    wevents,     \* watcher object -> events sent on its channel, in order
    joins,       \* whether dropping a watcher waits for its running callback
    wallocated,  \* history: watch ids in the order wnext_id handed them out
    winserted,   \* history: watcher objects ever registered
    wcreatedRet, \* history: ids watch_directory has returned, in return order
    unwatched    \* history: watcher objects whose unwatch has returned

ptyVars == <<instances, next_id, instHolder, idHolder, rl, nreads, events,
             ended, ptyIn, allocated, inserted, createdRet, killed, writeLog>>
watchVars == <<watchers, wnext_id, wHolder, widHolder, wst, wext, wconf, cb,
               nraw, raws,
               wevents, joins, wallocated, winserted, wcreatedRet, unwatched>>
callVars == <<pc, call, result, ncalls>>

vars == <<ptyVars, watchVars, callVars>>

\* ----------------------------------------------------------- registry map
Has(m, id) == id \in DOMAIN m

MapInsert(m, id, inst) ==
    [i \in DOMAIN m \cup {id} |-> IF i = id THEN inst ELSE m[i]]

MapRemove(m, id) == [i \in DOMAIN m \ {id} |-> m[i]]

\* Faulty variant: the counter is read and not advanced
NextAfterSame(n) == n

\* let id = *next; *next += 1;   The counter is a u32: the addition wraps (or
\* panics, in a build with overflow checks) only at 2^32 - 1, a value above
\* TLC's integers and 2^32 - 1 allocations away from the initial state.
NextAfter(n) == n + 1

\* n is the parity of the number of commands the thread has invoked, so
\* that an invocation always shows in the thread's call; os is how the OS
\* call of the command ended (the lsof query, a failed write or resize).
NoCall == [op |-> "none", id |-> 0, data |-> <<>>, pos |-> 0, pid |-> "None",
           hit |-> FALSE, late |-> FALSE, h |-> 0, n |-> 0, os |-> "none"]

Idle == [kind |-> "none", paths |-> <<>>]

\* Result<u32, String>, Result<(), String> (Ok(0)) and Result<String, String>
Ok(v) == [tag |-> "Ok", id |-> v, msg |-> ""]
OkPath(s) == [tag |-> "Ok", id |-> 0, msg |-> s]
Err(m) == [tag |-> "Err", id |-> 0, msg |-> m]
NoResult == [tag |-> "None", id |-> 0, msg |-> ""]

Init ==
    /\ instances = <<>>
    /\ next_id = 1
    /\ instHolder = NoThread
    /\ idHolder = NoThread
    /\ pc = [t \in Callers |-> "idle"]
    /\ call = [t \in Callers |-> NoCall]
    /\ result = [t \in Callers |-> NoResult]
    /\ rl = [id \in Ids |-> "none"]
    /\ nreads = [id \in Ids |-> 0]
    /\ events = [id \in Ids |-> <<>>]
    /\ ended = [id \in Ids |-> FALSE]
    /\ ptyIn = [id \in Ids |-> <<>>]
    /\ ncalls = 0
    /\ allocated = <<>>
    /\ inserted = {}
    /\ createdRet = <<>>
    /\ killed = {}
    /\ writeLog = [id \in Ids |-> <<>>]
    /\ watchers = <<>>
    /\ wnext_id = 1
    /\ wHolder = NoThread
    /\ widHolder = NoThread
    /\ wst = [h \in Handles |-> "none"]
    /\ wext = [h \in Handles |-> <<>>]
    /\ wconf = [h \in Handles |-> <<>>]
    /\ cb = [h \in Handles |-> Idle]
    /\ nraw = 0
    /\ raws = [h \in Handles |-> <<>>]
    /\ wevents = [h \in Handles |-> <<>>]
    /\ joins \in BOOLEAN
    /\ wallocated = <<>>
    /\ winserted = {}
    /\ wcreatedRet = <<>>
    /\ unwatched = {}

\* ------------------------------------------------------------- frames
lockVars == <<instHolder, idHolder>>
loopVars == <<rl, nreads, events>>
histVars == <<allocated, inserted, createdRet, killed, writeLog>>

RECURSIVE SumTo(_, _)
SumTo(f, n) == IF n = 0 THEN 0 ELSE f[n] + SumTo(f, n - 1)
\* non-empty reads so far, over all sessions
TotalReads == SumTo(nreads, MaxSessions)
\* what the environment has fed the two managers so far
Steps == ncalls + TotalReads + nraw

\* The command of thread t returns r; of its call only what the caller
\* knows of it is kept.
Return(t, r) ==
    /\ pc' = [pc EXCEPT ![t] = "idle"]
    /\ result' = [result EXCEPT ![t] = r]

Done(c) == [c EXCEPT !.data = <<>>, !.pos = 0, !.pid = "None"]

\* Thread t invokes a command with arguments c and gets to position `at`
\* (back to "idle", with result r, when the command is over in one step).
Invoke(t, c, at, r) ==
    /\ pc[t] = "idle"
    /\ ncalls < MaxCalls
    /\ Steps < MaxSteps
    /\ ncalls' = ncalls + 1
    /\ call' = [call EXCEPT ![t] = [c EXCEPT !.n = 1 - call[t].n]]
    /\ pc' = [pc EXCEPT ![t] = at]
    /\ result' = [result EXCEPT ![t] = r]

\* ---------------------------------------------------------- create_pty
\* creates that are past their fallible steps and have no id yet
PendingCreates == {t \in Callers : pc[t] \in {"c_lock_id", "c_alloc"}}

\* Faulty variant: the session is registered before try_clone_reader, whose failure
\* then returns Err and leaves the entry behind
CreateSetupRegistersFirst(t) ==
    /\ Len(allocated) + Cardinality(PendingCreates) < MaxSessions
    /\ \E f \in CreateFailures \cup {"none"}, p \in PidOpts :
          /\ IF f = "none"
                THEN Invoke(t, [NoCall EXCEPT !.op = "create", !.pid = p],
                            "c_lock_id", NoResult)
                ELSE Invoke(t, [NoCall EXCEPT !.op = "create"], "idle", Err(f))
          /\ IF f = "clone_reader" /\ lockVars = <<NoThread, NoThread>>
                THEN /\ instances' = MapInsert(instances, next_id, [pid |-> p])
                     /\ next_id' = next_id + 1
                     /\ allocated' = Append(allocated, next_id)
                     /\ inserted' = inserted \cup {next_id}
                ELSE UNCHANGED <<instances, next_id, allocated, inserted>>
    /\ UNCHANGED <<lockVars, loopVars, ended, ptyIn, createdRet, killed,
                   writeLog, watchVars>>

\* openpty, spawn_command, take_writer, try_clone_reader: each may fail and
\* returns Err through `?`; none of them touches the manager.
CreateSetup(t) ==
    /\ Len(allocated) + Cardinality(PendingCreates) < MaxSessions
    /\ \E f \in CreateFailures \cup {"none"}, p \in PidOpts :
          IF f = "none"
             THEN Invoke(t, [NoCall EXCEPT !.op = "create", !.pid = p],
                         "c_lock_id", NoResult)
             ELSE Invoke(t, [NoCall EXCEPT !.op = "create"], "idle", Err(f))
    /\ UNCHANGED <<instances, next_id, lockVars, loopVars, ended, ptyIn, histVars,
                   watchVars>>

\* let mut next = state.next_id.lock().unwrap();
CreateLockId(t) ==
    /\ pc[t] = "c_lock_id"
    /\ idHolder = NoThread
    /\ idHolder' = Caller(t)
    /\ pc' = [pc EXCEPT ![t] = "c_alloc"]
    /\ UNCHANGED <<instances, next_id, instHolder, call, result, loopVars,
                   ended, ptyIn, ncalls, histVars, watchVars>>

\* Faulty variant: the id is taken from the size of the map
CreateAllocByLen(t) ==
    /\ pc[t] = "c_alloc"
    /\ call' = [call EXCEPT ![t].id = Cardinality(DOMAIN instances) + 1]
    /\ allocated' = Append(allocated, Cardinality(DOMAIN instances) + 1)
    /\ idHolder' = NoThread
    /\ pc' = [pc EXCEPT ![t] = "c_lock_inst"]
    /\ UNCHANGED <<instances, next_id, instHolder, result, loopVars, ended,
                   ptyIn, ncalls, inserted, createdRet, killed, writeLog,
                   watchVars>>

\* Faulty variant: the guard of the counter lives to the end of create_pty
CreateAllocKeepsGuard(t) ==
    /\ pc[t] = "c_alloc"
    /\ call' = [call EXCEPT ![t].id = next_id]
    /\ next_id' = NextAfter(next_id)
    /\ allocated' = Append(allocated, next_id)
    /\ pc' = [pc EXCEPT ![t] = "c_lock_inst"]
    /\ UNCHANGED <<instances, instHolder, idHolder, result, loopVars, ended,
                   ptyIn, ncalls, inserted, createdRet, killed, writeLog,
                   watchVars>>

\* let id = *next; *next += 1; id   (the guard is dropped at the block's end)
CreateAlloc(t) ==
    /\ pc[t] = "c_alloc"
    /\ call' = [call EXCEPT ![t].id = next_id]
    /\ next_id' = NextAfter(next_id)
    /\ allocated' = Append(allocated, next_id)
    /\ idHolder' = NoThread
    /\ pc' = [pc EXCEPT ![t] = "c_lock_inst"]
    /\ UNCHANGED <<instances, instHolder, result, loopVars, ended, ptyIn,
                   ncalls, inserted, createdRet, killed, writeLog, watchVars>>

\* let mut instances = state.instances.lock().unwrap();
CreateLockInst(t) ==
    /\ pc[t] = "c_lock_inst"
    /\ instHolder = NoThread
    /\ instHolder' = Caller(t)
    /\ pc' = [pc EXCEPT ![t] = "c_insert"]
    /\ UNCHANGED <<instances, next_id, idHolder, call, result, loopVars,
                   ended, ptyIn, ncalls, histVars, watchVars>>

\* instances.insert(id, PtyInstance {..});   (guard dropped at the block's end)
CreateInsert(t) ==
    /\ pc[t] = "c_insert"
    /\ instances' = MapInsert(instances, call[t].id, [pid |-> call[t].pid])
    /\ inserted' = inserted \cup {call[t].id}
    /\ instHolder' = NoThread
    /\ pc' = [pc EXCEPT ![t] = "c_spawn"]
    /\ UNCHANGED <<next_id, idHolder, call, result, loopVars, ended, ptyIn,
                   ncalls, allocated, createdRet, killed, writeLog, watchVars>>

\* std::thread::spawn(move || { .. });
CreateSpawn(t) ==
    /\ pc[t] = "c_spawn"
    /\ rl' = [rl EXCEPT ![call[t].id] = "read"]
    /\ pc' = [pc EXCEPT ![t] = "c_ret"]
    /\ UNCHANGED <<instances, next_id, lockVars, call, result, nreads,
                   events, ended, ptyIn, ncalls, histVars, watchVars>>

\* Ok(id)
CreateReturn(t) ==
    /\ pc[t] = "c_ret"
    /\ Return(t, Ok(call[t].id))
    /\ call' = [call EXCEPT ![t] = Done(@)]
    /\ createdRet' = Append(createdRet, call[t].id)
    /\ UNCHANGED <<instances, next_id, lockVars, loopVars, ended, ptyIn,
                   ncalls, allocated, inserted, killed, writeLog, watchVars>>

create_pty(t) ==
    \/ CreateSetup(t)
    \/ CreateLockId(t)
    \/ CreateAlloc(t)
    \/ CreateLockInst(t)
    \/ CreateInsert(t)
    \/ CreateSpawn(t)
    \/ CreateReturn(t)

\* ----------------------------------------------------------- write_pty
\* Faulty variant: the guard is dropped after the lookup, before the handle
\* is used
UseGuardDroppedEarly(t) == NoThread

\* Who holds the registry mutex while write_pty and resize_pty use the
\* session they looked up: `instances`, the guard, lives to the end of the
\* function, so the calling thread does.
UseGuard(t) == Caller(t)

\* One more write got hold of the session's writer.
LogStart(log, t, d) == Append(log, [data |-> d, by |-> t, st |-> "run"])

\* The running write of thread t ends with st.
LogEnd(log, t, st) ==
    [i \in DOMAIN log |->
        IF log[i].by = t /\ log[i].st = "run" THEN [log[i] EXCEPT !.st = st]
        ELSE log[i]]

\* let mut instances = state.instances.lock().unwrap();
\* if let Some(instance) = instances.get_mut(&id) { .. }  Ok(())
WriteLock(t) ==
    /\ instHolder = NoThread
    /\ \E id \in ArgIds, d \in Datas :
        LET c == [NoCall EXCEPT !.op = "write", !.id = id, !.late = id \in killed]
        IN IF Has(instances, id)
              THEN /\ Invoke(t, [c EXCEPT !.data = d, !.hit = TRUE], "w_write",
                             NoResult)
                   /\ instHolder' = UseGuard(t)
                   /\ writeLog' = [writeLog EXCEPT ![id] = LogStart(@, t, d)]
              ELSE /\ Invoke(t, c, "idle", Ok(0))
                   /\ UNCHANGED <<instHolder, writeLog>>
    /\ UNCHANGED <<instances, next_id, idHolder, loopVars, ended, ptyIn,
                   allocated, inserted, createdRet, killed, watchVars>>

\* Faulty variant: write instead of write_all: whatever the pty took of the first
\* write(2) counts as the whole
WriteAcceptOnce(t, n) ==
    LET c == call[t] IN
    /\ ptyIn' = [ptyIn EXCEPT ![c.id] = @ \o SubSeq(c.data, c.pos + 1, c.pos + n)]
    /\ call' = [call EXCEPT ![t].pos = c.pos + n]
    /\ pc' = [pc EXCEPT ![t] = "w_flush"]
    /\ UNCHANGED <<instHolder, result, writeLog>>

\* One write(2) of write_all's loop: the pty takes n >= 1 of the remaining
\* bytes, and write_all goes on with the rest until none is left.
WriteAccept(t, n) ==
    LET c == call[t] IN
    /\ ptyIn' = [ptyIn EXCEPT ![c.id] = @ \o SubSeq(c.data, c.pos + 1, c.pos + n)]
    /\ call' = [call EXCEPT ![t].pos = c.pos + n]
    /\ pc' = [pc EXCEPT ![t] = IF c.pos + n = Len(c.data) THEN "w_flush"
                                ELSE "w_write"]
    /\ UNCHANGED <<instHolder, result, writeLog>>

\* The guard is dropped when `?` returns the error.
WriteFail(t, msg) ==
    /\ Return(t, Err(msg))
    /\ call' = [call EXCEPT ![t] = [Done(@) EXCEPT !.os = "failed"]]
    /\ instHolder' = NoThread
    /\ writeLog' = [writeLog EXCEPT ![call[t].id] = LogEnd(@, t, "err")]
    /\ UNCHANGED ptyIn

\* instance.writer.write_all(&data).map_err(|e| e.to_string())?;
WriteAll(t) ==
    /\ pc[t] = "w_write"
    /\ \/ \E n \in 1..(Len(call[t].data) - call[t].pos) : WriteAccept(t, n)
       \/ WriteFail(t, "write_all")
    /\ UNCHANGED <<instances, next_id, idHolder, loopVars, ended, ncalls,
                   allocated, inserted, createdRet, killed, watchVars>>

\* instance.writer.flush().map_err(|e| e.to_string())?;  Ok(())
WriteFlush(t) ==
    /\ pc[t] = "w_flush"
    /\ \/ /\ Return(t, Ok(0))
          /\ call' = [call EXCEPT ![t] = Done(@)]
          /\ instHolder' = NoThread
          /\ writeLog' = [writeLog EXCEPT ![call[t].id] = LogEnd(@, t, "ok")]
          /\ UNCHANGED ptyIn
       \/ WriteFail(t, "flush")
    /\ UNCHANGED <<instances, next_id, idHolder, loopVars, ended, ncalls,
                   allocated, inserted, createdRet, killed, watchVars>>

write_pty(t) ==
    \/ WriteLock(t)
    \/ WriteAll(t)
    \/ WriteFlush(t)

\* ---------------------------------------------------------- resize_pty
\* let instances = state.instances.lock().unwrap();
\* if let Some(instance) = instances.get(&id) { .. }  Ok(())
ResizeLock(t) ==
    /\ instHolder = NoThread
    /\ \E id \in ArgIds :
        LET c == [NoCall EXCEPT !.op = "resize", !.id = id, !.late = id \in killed]
        IN IF Has(instances, id)
              THEN /\ Invoke(t, [c EXCEPT !.hit = TRUE], "r_resize", NoResult)
                   /\ instHolder' = UseGuard(t)
              ELSE /\ Invoke(t, c, "idle", Ok(0))
                   /\ UNCHANGED instHolder
    /\ UNCHANGED <<instances, next_id, idHolder, loopVars, ended, ptyIn, histVars,
                   watchVars>>

\* Faulty variant: the result of resize is dropped (let _ = ..resize(..))
ResizeResultSwallowed(o) == Ok(0)

\* .resize(PtySize {..}).map_err(|e| e.to_string())?;  Ok(())
ResizeResult(o) == IF o = "failed" THEN Err("resize") ELSE Ok(0)

\* instance.master.resize(PtySize {..}): the ioctl succeeds or fails
ResizeIoctl(t) ==
    /\ pc[t] = "r_resize"
    /\ \E o \in {"ok", "failed"} :
          /\ Return(t, ResizeResult(o))
          /\ call' = [call EXCEPT ![t].os = o]
    /\ instHolder' = NoThread
    /\ UNCHANGED <<instances, next_id, idHolder, loopVars, ended, ptyIn,
                   ncalls, histVars, watchVars>>

resize_pty(t) ==
    \/ ResizeLock(t)
    \/ ResizeIoctl(t)

\* ------------------------------------------------------------ kill_pty
\* Faulty variant: kill_pty empties the map (instances.clear())
KillRemoveAll(m, id) == <<>>

\* Faulty variant: kill_pty looks the session up and leaves it in the map
KillRemoveNothing(m, id) == m

\* What kill_pty does to the map: instances.remove(&id)
KillRemove(m, id) == MapRemove(m, id)

\* let mut instances = state.instances.lock().unwrap();
\* instances.remove(&id);   (None: nothing to drop, Ok(()) at once)
KillLock(t) ==
    /\ instHolder = NoThread
    /\ \E id \in ArgIds :
        LET c == [NoCall EXCEPT !.op = "kill", !.id = id, !.late = id \in killed]
        IN /\ instances' = KillRemove(instances, id)
           /\ IF Has(instances, id)
                 THEN /\ Invoke(t, [c EXCEPT !.hit = TRUE], "k_drop", NoResult)
                      /\ instHolder' = Caller(t)
                      /\ UNCHANGED killed
                 ELSE /\ Invoke(t, c, "idle", Ok(0))
                      /\ killed' = killed \cup ({id} \cap inserted)
                      /\ UNCHANGED instHolder
    /\ UNCHANGED <<next_id, idHolder, loopVars, ended, ptyIn, allocated,
                   inserted, createdRet, writeLog, watchVars>>

\* The removed PtyInstance is dropped at the end of the statement, the guard
\* still held: writer, child handle and master are released.  Ok(())
KillDrop(t) ==
    /\ pc[t] = "k_drop"
    /\ ended' = [ended EXCEPT ![call[t].id] = TRUE]
    /\ instHolder' = NoThread
    /\ Return(t, Ok(0))
    /\ killed' = killed \cup {call[t].id}
    /\ UNCHANGED <<instances, next_id, idHolder, call, loopVars, ptyIn, ncalls,
                   allocated, inserted, createdRet, writeLog, watchVars>>

kill_pty(t) ==
    \/ KillLock(t)
    \/ KillDrop(t)

\* --------------------------------------------------------- get_pty_cwd
\* let instances = state.instances.lock().unwrap();
\* let instance = instances.get(&id).ok_or("PTY not found")?;
\* let pid = instance.pid.ok_or("No PID")?;
CwdLock(t) ==
    /\ instHolder = NoThread
    /\ \E id \in ArgIds :
        LET c == [NoCall EXCEPT !.op = "cwd", !.id = id, !.late = id \in killed]
        IN IF ~Has(instances, id)
              THEN /\ Invoke(t, c, "idle", Err("PTY not found"))
                   /\ UNCHANGED instHolder
              ELSE IF instances[id].pid = "None"
              THEN /\ Invoke(t, [c EXCEPT !.hit = TRUE], "idle", Err("No PID"))
                   /\ UNCHANGED instHolder
              ELSE /\ Invoke(t, [c EXCEPT !.hit = TRUE], "g_pgrep", NoResult)
                   /\ instHolder' = Caller(t)
    /\ UNCHANGED <<instances, next_id, idHolder, loopVars, ended, ptyIn, histVars,
                   watchVars>>

\* let fg_pid = get_foreground_pid(pid).unwrap_or(pid);   (runs pgrep)
CwdPgrep(t) ==
    /\ pc[t] = "g_pgrep"
    /\ pc' = [pc EXCEPT ![t] = "g_lsof"]
    /\ UNCHANGED <<instances, next_id, lockVars, call, result, loopVars, ended,
                   ptyIn, ncalls, histVars, watchVars>>

\* how the lsof query may end: it cannot be run, it exits with an error
\* status, its output has no line that starts with 'n', or it has one
LsofOutcomes == {"spawn_failed", "status_error", "no_n_line", "found"}

\* Faulty variant: a failed query gives an empty path
LsofResultLenient(o) == IF o = "found" THEN OkPath("path") ELSE OkPath("")

\* .output().map_err(|e| format!("lsof failed: {}", e))?;
\* if !output.status.success() { return Err("lsof returned error") }
\* for line in stdout.lines() { if let Some(path) = line.strip_prefix('n')
\*     { return Ok(path.to_string()); } }   Err("CWD not found in lsof output")
LsofResult(o) ==
    CASE o = "spawn_failed" -> Err("lsof failed")
      [] o = "status_error" -> Err("lsof returned error")
      [] o = "no_n_line" -> Err("CWD not found in lsof output")
      [] OTHER -> OkPath("path")

\* Command::new("/usr/bin/lsof")...output(), then the scan of its stdout
CwdLsof(t) ==
    /\ pc[t] = "g_lsof"
    /\ \E o \in LsofOutcomes :
          /\ Return(t, LsofResult(o))
          /\ call' = [call EXCEPT ![t].os = o]
    /\ instHolder' = NoThread
    /\ UNCHANGED <<instances, next_id, idHolder, loopVars, ended, ptyIn,
                   ncalls, histVars, watchVars>>

get_pty_cwd(t) ==
    \/ CwdLock(t)
    \/ CwdPgrep(t)
    \/ CwdLsof(t)

\* ------------------------------------------------- the read-loop thread
Output(d) == <<"Output", d>>
ErrorEv == <<"Error", <<>>>>
ExitEv == <<"Exit", <<>>>>

Send(ch, ev) == Append(ch, ev)

\* The bytes the k-th non-empty read of a session returns.
Chunk(k) == <<2 * k - 1, 2 * k>>

\* buf after the k-th read: the bytes read, and behind them what the buffer
\* held before (0 stands for the rest of the 4096 bytes).
Buf(k) == Chunk(k) \o <<0>>

\* Faulty variant: the whole buffer is sent
DataWholeBuf(buf, n) == buf

\* buf[..n].to_vec()
Data(buf, n) == SubSeq(buf, 1, n)

\* Ok(n) => on_event.send(PtyEvent::Output { data: buf[..n].to_vec() })
ReadOutput(k) == Output(Data(Buf(k), Len(Chunk(k))))

\* Faulty variant: no break in the Err arm, the loop reads on after an error
RLReadOnAfterError(id) ==
    /\ rl[id] = "read"
    /\ \/ /\ TotalReads < MaxReads
          /\ Steps < MaxSteps
          /\ nreads' = [nreads EXCEPT ![id] = @ + 1]
          /\ events' = [events EXCEPT ![id] = Send(@, ReadOutput(nreads[id] + 1))]
          /\ UNCHANGED rl
       \/ /\ ended[id]
          /\ rl' = [rl EXCEPT ![id] = "lock"]
          /\ UNCHANGED <<nreads, events>>
       \/ /\ ended[id]
          /\ Len(events[id]) < MaxReads + 2
          /\ events' = [events EXCEPT ![id] = Send(@, ErrorEv)]
          /\ UNCHANGED <<rl, nreads>>
    /\ UNCHANGED <<instances, next_id, lockVars, pc, call, result, ended,
                   ptyIn, ncalls, histVars, watchVars>>

\* match reader.read(&mut buf): the read blocks until the child has written
\* something, or returns Ok(0) or an error (EIO) once the child is gone or
\* the pty is closed.
\*   Ok(0) => break,
\*   Ok(n) => on_event.send(PtyEvent::Output { data: buf[..n].to_vec() }),
\*   Err(e) => { on_event.send(PtyEvent::Error {..}); break; }
RLRead(id) ==
    /\ rl[id] = "read"
    /\ \/ /\ TotalReads < MaxReads
          /\ Steps < MaxSteps
          /\ nreads' = [nreads EXCEPT ![id] = @ + 1]
          /\ events' = [events EXCEPT ![id] = Send(@, ReadOutput(nreads[id] + 1))]
          /\ UNCHANGED rl
       \/ /\ ended[id]
          /\ rl' = [rl EXCEPT ![id] = "lock"]
          /\ UNCHANGED <<nreads, events>>
       \/ /\ ended[id]
          /\ events' = [events EXCEPT ![id] = Send(@, ErrorEv)]
          /\ rl' = [rl EXCEPT ![id] = "lock"]
          /\ UNCHANGED nreads
    /\ UNCHANGED <<instances, next_id, lockVars, pc, call, result, ended,
                   ptyIn, ncalls, histVars, watchVars>>

\* Faulty variant: the read loop leaves its entry in the map
LoopRemoveNothing(m, id) == m

\* What the read loop does to the map: instances.remove(&id)
LoopRemove(m, id) == MapRemove(m, id)

\* let mut instances = instances_ref.lock().unwrap();
\* instances.remove(&id);   (a removed instance is dropped here)
RLRemove(id) ==
    /\ rl[id] = "lock"
    /\ instHolder = NoThread
    /\ instHolder' = Reader(id)
    /\ instances' = LoopRemove(instances, id)
    /\ ended' = [ended EXCEPT ![id] = @ \/ Has(instances, id)]
    /\ rl' = [rl EXCEPT ![id] = "exit"]
    /\ UNCHANGED <<next_id, idHolder, pc, call, result, nreads, events,
                   ptyIn, ncalls, histVars, watchVars>>

\* Faulty variant: Exit is sent and the loop is entered again
RLExitAndReadOn(id) ==
    /\ rl[id] = "exit"
    /\ events' = [events EXCEPT ![id] = Send(@, ExitEv)]
    /\ instHolder' = NoThread
    /\ rl' = [rl EXCEPT ![id] = "read"]
    /\ UNCHANGED <<instances, next_id, idHolder, pc, call, result,
                   nreads, ended, ptyIn, ncalls, histVars, watchVars>>

\* let _ = on_event.send(PtyEvent::Exit {});   and the closure ends: the
\* guard is dropped and the thread is over.
RLExit(id) ==
    /\ rl[id] = "exit"
    /\ events' = [events EXCEPT ![id] = Send(@, ExitEv)]
    /\ instHolder' = NoThread
    /\ rl' = [rl EXCEPT ![id] = "done"]
    /\ UNCHANGED <<instances, next_id, idHolder, pc, call, result,
                   nreads, ended, ptyIn, ncalls, histVars, watchVars>>

ReadLoop(id) ==
    \/ RLRead(id)
    \/ RLRemove(id)
    \/ RLExit(id)

\* The shell of a session exits on its own.
ChildExit(id) ==
    /\ id \in inserted
    /\ ~ended[id]
    /\ ended' = [ended EXCEPT ![id] = TRUE]
    /\ UNCHANGED <<instances, next_id, lockVars, pc, call, result, loopVars,
                   ptyIn, ncalls, histVars, watchVars>>

\* ------------------------------------------------------ watch_directory
NoExt == "(none)"

\* Path::extension(), on the sample paths
Extension(p) ==
    CASE p = "a.md" -> "md"
      [] p = "b.MD" -> "MD"
      [] p = "c.txt" -> "txt"
      [] OTHER -> NoExt

\* str::to_lowercase(), on the sample extensions
Lower(e) == IF e = "MD" THEN "md" ELSE e

\* extensions.iter().map(|e| e.to_lowercase()).collect()
ExtSet(extensions) == [i \in DOMAIN extensions |-> Lower(extensions[i])]

Contains(list, e) == \E i \in DOMAIN list : list[i] = e

\* Faulty variant: the path's extension is compared as it is spelt
MatchesCaseSensitive(ext_set, p) ==
    IF ext_set = <<>> THEN TRUE
    ELSE Extension(p) # NoExt /\ Contains(ext_set, Extension(p))

\* The filter closure of the callback:
\*   if ext_set.is_empty() { return true; }
\*   p.extension().and_then(|e| e.to_str())
\*    .map(|e| ext_set.contains(&e.to_lowercase())).unwrap_or(false)
Matches(ext_set, p) ==
    IF ext_set = <<>> THEN TRUE
    ELSE Extension(p) # NoExt /\ Contains(ext_set, Lower(Extension(p)))

Test(ext_set, p) == Matches(ext_set, p)

\* event.paths.iter().filter(..).collect()
Filter(ext_set, paths) == SelectSeq(paths, LAMBDA p : Test(ext_set, p))

\* path lists a raw event may carry
RawPaths == {<<"a.md">>, <<"Makefile">>, <<"b.MD", "c.txt">>}
\* how std::fs::read_to_string(path) may end
ReadOutcomes == {"read", "failed"}
\* std::fs::read_to_string(path).unwrap_or_default(): the text, or "" when
\* the read fails
ReadOrDefault(o) == IF o = "read" THEN "text" ELSE ""
Contents == {ReadOrDefault(o) : o \in ReadOutcomes}

Created(p) == [type |-> "Created", path |-> p, content |-> ""]
Changed(p, c) == [type |-> "Changed", path |-> p, content |-> c]
Removed(p) == [type |-> "Removed", path |-> p, content |-> ""]
WatchError == [type |-> "Error", path |-> "", content |-> ""]

\* Result<notify::Event, notify::Error>, as the backend hands it over
RawEvent(kind, paths) == [kind |-> kind, paths |-> paths]
RawError == [kind |-> "Err", paths |-> <<>>]

Built == {h \in Handles : wst[h] # "none"}

\* watch_path.is_dir(), RecommendedWatcher::new(callback, ..) and
\* watcher.watch(&watch_path, Recursive): each may fail and returns Err; once
\* watch() has returned Ok the backend delivers raw events to the callback.
WatchSetup(t) ==
    /\ Cardinality(Built) < MaxWatches
    /\ \E f \in WatchFailures \cup {"none"}, extensions \in ExtLists :
        LET h == Cardinality(Built) + 1 IN
        IF f = "none"
           THEN /\ Invoke(t, [NoCall EXCEPT !.op = "watch", !.h = h],
                          "wd_lock_id", NoResult)
                /\ wst' = [wst EXCEPT ![h] = "watching"]
                /\ wext' = [wext EXCEPT ![h] = ExtSet(extensions)]
                /\ wconf' = [wconf EXCEPT ![h] = extensions]
           ELSE /\ Invoke(t, [NoCall EXCEPT !.op = "watch"], "idle", Err(f))
                /\ UNCHANGED <<wst, wext, wconf>>
    /\ UNCHANGED <<ptyVars, watchers, wnext_id, wHolder, widHolder, cb, nraw, raws,
                   wevents, joins, wallocated, winserted, wcreatedRet, unwatched>>

\* let mut next = state.next_id.lock().unwrap();
WatchLockId(t) ==
    /\ pc[t] = "wd_lock_id"
    /\ widHolder = NoThread
    /\ widHolder' = Caller(t)
    /\ pc' = [pc EXCEPT ![t] = "wd_alloc"]
    /\ UNCHANGED <<ptyVars, watchers, wnext_id, wHolder, wst, wext, wconf, cb, nraw, raws,
                   wevents, joins, wallocated, winserted, wcreatedRet, unwatched, call,
                   result, ncalls>>

\* let id = *next; *next += 1; id
WatchAlloc(t) ==
    /\ pc[t] = "wd_alloc"
    /\ call' = [call EXCEPT ![t].id = wnext_id]
    /\ wnext_id' = NextAfter(wnext_id)
    /\ wallocated' = Append(wallocated, wnext_id)
    /\ widHolder' = NoThread
    /\ pc' = [pc EXCEPT ![t] = "wd_lock"]
    /\ UNCHANGED <<ptyVars, watchers, wHolder, wst, wext, wconf, cb, nraw, raws, wevents,
                   joins, winserted, wcreatedRet, unwatched, result, ncalls>>

\* let mut watchers = state.watchers.lock().unwrap();
WatchLock(t) ==
    /\ pc[t] = "wd_lock"
    /\ wHolder = NoThread
    /\ wHolder' = Caller(t)
    /\ pc' = [pc EXCEPT ![t] = "wd_insert"]
    /\ UNCHANGED <<ptyVars, watchers, wnext_id, widHolder, wst, wext, wconf, cb, nraw, raws,
                   wevents, joins, wallocated, winserted, wcreatedRet, unwatched, call,
                   result, ncalls>>

\* watchers.insert(id, WatcherEntry { _watcher: watcher });  Ok(id)
WatchInsert(t) ==
    /\ pc[t] = "wd_insert"
    /\ watchers' = MapInsert(watchers, call[t].id, call[t].h)
    /\ winserted' = winserted \cup {call[t].h}
    /\ wHolder' = NoThread
    /\ wcreatedRet' = Append(wcreatedRet, call[t].id)
    /\ Return(t, Ok(call[t].id))
    /\ UNCHANGED <<ptyVars, wnext_id, widHolder, wst, wext, wconf, cb, nraw, raws, wevents,
                   joins, wallocated, unwatched, call, ncalls>>

watch_directory(t) ==
    \/ WatchSetup(t)
    \/ WatchLockId(t)
    \/ WatchAlloc(t)
    \/ WatchLock(t)
    \/ WatchInsert(t)

\* ---------------------------------------------------- unwatch_directory
\* let mut watchers = state.watchers.lock().unwrap();
\* watchers.remove(&id);   (None: nothing to drop, Ok(()) at once)
UnwatchLock(t) ==
    /\ wHolder = NoThread
    /\ \E id \in WatchArgIds :
        LET c == [NoCall EXCEPT !.op = "unwatch", !.id = id] IN
        /\ watchers' = MapRemove(watchers, id)
        /\ IF Has(watchers, id)
              THEN /\ Invoke(t, [c EXCEPT !.hit = TRUE, !.h = watchers[id]],
                             "u_drop", NoResult)
                   /\ wHolder' = Caller(t)
              ELSE /\ Invoke(t, c, "idle", Ok(0))
                   /\ UNCHANGED wHolder
    /\ UNCHANGED <<ptyVars, wnext_id, widHolder, wst, wext, wconf, cb, nraw, raws, wevents,
                   joins, wallocated, winserted, wcreatedRet, unwatched>>

\* Whether the drop of watcher h may complete: a backend that joins its
\* notification thread (FSEvents) waits for the callback in progress; one
\* that only signals it (inotify, ReadDirectoryChangesW, kqueue, poll) does
\* not wait.
DropReady(h) == joins => cb[h] = Idle

\* The removed WatcherEntry is dropped at the end of the statement, the guard
\* still held: RecommendedWatcher's Drop unsubscribes the watch.  Ok(())
UnwatchDrop(t) ==
    /\ pc[t] = "u_drop"
    /\ DropReady(call[t].h)
    /\ wst' = [wst EXCEPT ![call[t].h] = "dropped"]
    /\ unwatched' = unwatched \cup {call[t].h}
    /\ wHolder' = NoThread
    /\ Return(t, Ok(0))
    /\ UNCHANGED <<ptyVars, watchers, wnext_id, widHolder, wext, wconf, cb, nraw, raws,
                   wevents, joins, wallocated, winserted, wcreatedRet, call, ncalls>>

unwatch_directory(t) ==
    \/ UnwatchLock(t)
    \/ UnwatchDrop(t)

\* ------------------------------------- the callback, on the backend thread
\* Faulty variant: the error is swallowed
OnErrorSilent(ch) == ch

\* Err(e) => { let _ = channel.send(WatchEvent::Error { message }); }
OnError(ch) == Send(ch, WatchError)

\* The backend calls the closure with a raw event or an error:
\*   Err(e) => channel.send(WatchEvent::Error {..})
\*   Ok(event) => filter event.paths; if paths.is_empty() { return; }
CbDeliver(h) ==
    /\ wst[h] = "watching"
    /\ cb[h] = Idle
    /\ nraw < MaxRaw
    /\ Steps < MaxSteps
    /\ nraw' = nraw + 1
    /\ \/ /\ wevents' = [wevents EXCEPT ![h] = OnError(@)]
          /\ raws' = [raws EXCEPT ![h] = Append(@, RawError)]
          /\ UNCHANGED cb
       \/ \E kind \in Kinds, paths \in RawPaths :
            /\ cb' = [cb EXCEPT ![h] =
                        IF Filter(wext[h], paths) = <<>> THEN Idle
                        ELSE [kind |-> kind, paths |-> Filter(wext[h], paths)]]
            /\ raws' = [raws EXCEPT ![h] = Append(@, RawEvent(kind, paths))]
            /\ UNCHANGED wevents
    /\ UNCHANGED <<ptyVars, callVars, watchers, wnext_id, wHolder, widHolder,
                   wst, wext, wconf, joins, wallocated, winserted, wcreatedRet, unwatched>>

\* Faulty variant: a file that cannot be read gives an Error event
TypedReadFailureIsError(kind, p) ==
    CASE kind = "Create" -> {Created(p)}
      [] kind = "Modify" -> {Changed(p, ReadOrDefault("read")), WatchError}
      [] kind = "Remove" -> {Removed(p)}
      [] OTHER -> {}

\* match event.kind { Create(_) => Created{path}, Modify(_) => Changed{path,
\* content}, Remove(_) => Removed{path}, _ => {} }
Typed(kind, p) ==
    CASE kind = "Create" -> {Created(p)}
      [] kind = "Modify" -> {Changed(p, c) : c \in Contents}
      [] kind = "Remove" -> {Removed(p)}
      [] OTHER -> {}

\* One turn of `for path in paths`.
CbPath(h) ==
    /\ cb[h] # Idle
    /\ LET p == Head(cb[h].paths) IN
         \/ \E ev \in Typed(cb[h].kind, p) :
               wevents' = [wevents EXCEPT ![h] = Send(@, ev)]
         \/ /\ Typed(cb[h].kind, p) = {}
            /\ UNCHANGED wevents
    /\ cb' = [cb EXCEPT ![h] = IF Tail(@.paths) = <<>> THEN Idle
                                ELSE [@ EXCEPT !.paths = Tail(@)]]
    /\ UNCHANGED <<ptyVars, callVars, watchers, wnext_id, wHolder, widHolder,
                   wst, wext, wconf, nraw, raws, joins, wallocated, winserted, wcreatedRet, unwatched>>

Callback(h) ==
    \/ CbDeliver(h)
    \/ CbPath(h)

\* ------------------------------------------------------- specification
NextPty ==
    \/ \E t \in Callers : create_pty(t)
    \/ \E t \in Callers : write_pty(t)
    \/ \E t \in Callers : resize_pty(t)
    \/ \E t \in Callers : kill_pty(t)
    \/ \E t \in Callers : get_pty_cwd(t)
    \/ \E id \in Ids : ReadLoop(id)
    \/ \E id \in Ids : ChildExit(id)

NextWatch ==
    \/ \E t \in Callers : watch_directory(t)
    \/ \E t \in Callers : unwatch_directory(t)
    \/ \E h \in Handles : Callback(h)

Next == NextPty \/ NextWatch

\* both managers, as lib.rs registers them
Spec == Init /\ [][Next]_vars

\* The PTY manager alone. The watch manager stays as constructed, so the
\* drop behaviour of its backend is left out of the initial states.
InitPty == Init /\ joins

SpecPty == InitPty /\ [][NextPty]_vars

\* the watch manager alone
SpecWatch == Init /\ [][NextWatch]_vars

\* The session lifecycle of both managers: the commands that create and
\* remove sessions, and the read loops that remove their own.
NextLife ==
    \/ \E t \in Callers : create_pty(t)
    \/ \E t \in Callers : kill_pty(t)
    \/ \E id \in Ids : ReadLoop(id)
    \/ \E id \in Ids : ChildExit(id)
    \/ \E t \in Callers : watch_directory(t)
    \/ \E t \in Callers : unwatch_directory(t)

SpecLife == InitPty /\ [][NextLife]_vars

\* The steps that continue a command in progress.
Continue(t) ==
    \/ CreateLockId(t) \/ CreateAlloc(t) \/ CreateLockInst(t) \/ CreateInsert(t)
    \/ CreateSpawn(t) \/ CreateReturn(t) \/ WriteAll(t) \/ WriteFlush(t)
    \/ ResizeIoctl(t) \/ KillDrop(t) \/ CwdPgrep(t) \/ CwdLsof(t)

\* The OS schedules every thread that can run, a mutex that stays free is
\* acquired, and an OS call in progress returns.
Fairness ==
    /\ \A t \in Callers : WF_vars(Continue(t))
    /\ \A id \in Ids : WF_vars(ReadLoop(id))

SpecPtyFair == SpecPty /\ Fairness

\* ------------------------------------------------------------- claims
Last(q) == q[Len(q)]
Range(q) == {q[i] : i \in DOMAIN q}
HasExit(id) == ExitEv \in Range(events[id])
Emits(id) == events'[id] # events[id]

\* C1: on every session's stream nothing follows Exit, and whenever Exit is
\* sent the session's id is not in the registry.
C1_ExitIsLastAndAfterRemoval ==
    [][\A id \in Ids :
          /\ HasExit(id) => ~Emits(id)
          /\ (Emits(id) /\ Last(events'[id]) = ExitEv) =>
                (~Has(instances, id) /\ ~Has(instances', id))]_vars

\* C1 witness: a session that kill_pty removed has sent Output and then Exit.
C1_Witness ==
    \E id \in Ids :
        /\ id \in killed
        /\ Len(events[id]) >= 2
        /\ Last(events[id]) = ExitEv

\* C2: a registered session whose child has exited or whose resources were
\* dropped eventually sends Exit, and after Exit its stream never grows (so
\* Exit is sent once).
C2_EventuallyOneExit ==
    /\ \A id \in Ids : (id \in inserted /\ ended[id]) ~> HasExit(id)
    /\ [][\A id \in Ids : HasExit(id) => events'[id] = events[id]]_vars

\* C2 witness: a session ended by a read error has sent Error and then Exit.
C2_Witness ==
    \E id \in Ids :
        /\ rl[id] = "done"
        /\ Len(events[id]) >= 2
        /\ events[id][Len(events[id]) - 1] = ErrorEv
        /\ Last(events[id]) = ExitEv

\* A command on a session the registry does not hold returns in the step
\* that takes the lock.
Miss(t, ops) ==
    /\ call'[t].n # call[t].n
    /\ call'[t].op \in ops
    /\ ~Has(instances, call'[t].id)

\* C3: once kill_pty(id) has returned for a registered id, the registry holds
\* no entry for id; write_pty, resize_pty and kill_pty on an id the registry
\* does not hold (removed, or never allocated) return Ok and change neither
\* the registry nor any session.
C3_KilledIsGoneAndLaterCallsAreNoOps ==
    /\ [](\A id \in killed : ~Has(instances, id))
    /\ [][\A t \in Callers :
             Miss(t, {"write", "resize", "kill"}) =>
                /\ pc'[t] = "idle"
                /\ result'[t] = Ok(0)
                /\ UNCHANGED <<instances, next_id, instHolder, rl, events,
                               ended, ptyIn>>]_vars

\* C3 witness: a write_pty invoked after kill_pty(id) had returned found no
\* session and returned Ok.
C3_Witness ==
    \E t \in Callers :
        /\ pc[t] = "idle"
        /\ call[t].op = "write"
        /\ call[t].late
        /\ ~call[t].hit
        /\ result[t] = Ok(0)

\* C4: in each manager the ids handed out start at 1 and strictly increase in
\* the order of allocation, and no create returns an id a create returned
\* before, whatever was removed in between.
Increasing(q) ==
    /\ q # <<>> => q[1] = 1
    /\ \A i, j \in DOMAIN q : i < j => q[i] < q[j]

Distinct(q) == \A i, j \in DOMAIN q : i # j => q[i] # q[j]

C4_IdsIncreaseAndAreNeverReused ==
    /\ Increasing(allocated) /\ Distinct(createdRet)
    /\ Increasing(wallocated) /\ Distinct(wcreatedRet)
    /\ Range(createdRet) \subseteq Range(allocated)
    /\ Range(wcreatedRet) \subseteq Range(wallocated)

\* C4 witness: session 1 was created and killed, and a second create_pty has
\* returned 2.
C4_Witness ==
    /\ createdRet = <<1, 2>>
    /\ 1 \in killed
    /\ ~Has(instances, 1)
    /\ Has(instances, 2)

\* C5: no event is sent on a session's channel before create_pty has returned
\* that session's id.
C5_NoEventBeforeCreateReturns ==
    \A id \in Ids : events[id] # <<>> => id \in Range(createdRet)

\* positions of a caller thread inside an OS call: write(2) and flush on the
\* pty, the resize ioctl, the teardown of a removed session, pgrep, lsof
IoPcs == {"w_write", "w_flush", "r_resize", "k_drop", "g_pgrep", "g_lsof"}
InOsCall(t) == pc[t] \in IoPcs

\* C6: no thread that holds the registry mutex is inside an OS call or about
\* to send an event.
C6_NoIoOrEmitUnderRegistryLock ==
    /\ \A t \in Callers : InOsCall(t) => instHolder # Caller(t)
    /\ \A id \in Ids : rl[id] = "exit" => instHolder # Reader(id)

\* C7: while a command on one session is inside an OS call, the read loop of
\* another session that has left its loop can take the registry mutex and
\* terminate.
C7_OtherSessionsAreNotBlocked ==
    \A t \in Callers, id \in Ids :
        (InOsCall(t) /\ call[t].id # id /\ rl[id] = "lock") =>
            ENABLED RLRemove(id)

\* What a logged write has delivered: all of its data once it returned Ok,
\* the bytes write_all has got through while it runs.
Delivered(e) ==
    IF e.st = "ok" THEN e.data
    ELSE IF e.st = "run" THEN SubSeq(e.data, 1, call[e.by].pos)
    ELSE <<>>

RECURSIVE Flat(_)
Flat(log) == IF log = <<>> THEN <<>> ELSE Delivered(Head(log)) \o Flat(Tail(log))

NoFailedWrite(id) == \A i \in DOMAIN writeLog[id] : writeLog[id][i].st # "err"

\* C8: as long as no write on a session has failed, the bytes its pty
\* received are the data of the writes in the order they took the session,
\* each whole and contiguous, followed by what the write in progress has
\* delivered so far.
C8_PtyReceivesWritesInOrder ==
    \A id \in Ids : NoFailedWrite(id) => ptyIn[id] = Flat(writeLog[id])

\* C8 witness: two threads wrote <<1, 2>> and <<3>> to one session, both
\* returned Ok, and the pty received <<1, 2, 3>>.
C8_Witness ==
    \E id \in Ids :
        /\ Len(writeLog[id]) = 2
        /\ writeLog[id][1].by # writeLog[id][2].by
        /\ \A i \in 1..2 : writeLog[id][i].st = "ok"
        /\ ptyIn[id] = <<1, 2, 3>>

\* A create_pty or watch_directory of thread t returns an error in this step.
Fails(t) ==
    /\ call'[t].op \in {"create", "watch"}
    /\ result'[t].tag = "Err"
    /\ call'[t].n # call[t].n

\* C9: a create_pty or watch_directory that returns an error has changed
\* neither registry nor id counter, has started no read loop and left no
\* watch running, and never got an id.
C9_FailedCreateLeavesNoResidue ==
    /\ [][\A t \in Callers :
             Fails(t) => UNCHANGED <<instances, next_id, rl, watchers,
                                     wnext_id, wst>>]_vars
    /\ [](\A t \in Callers :
             (call[t].op \in {"create", "watch"} /\ result[t].tag = "Err") =>
                 call[t].id = 0 /\ call[t].h = 0)

\* C9 witness: with a session registered, a create_pty has failed in
\* try_clone_reader and a watch_directory in watcher.watch().
C9_Witness ==
    /\ instances # <<>>
    /\ \E t, u \in Callers :
          /\ call[t].op = "create" /\ result[t] = Err("clone_reader")
          /\ call[u].op = "watch" /\ result[u] = Err("watch")

\* C10: unwatch_directory on an id the registry does not hold returns Ok and
\* changes nothing, and once unwatch_directory has returned for a registered
\* watch, nothing more is sent on that watch's channel.
C10_NoEventAfterUnwatch ==
    [][/\ \A t \in Callers :
             (/\ call'[t].n # call[t].n
              /\ call'[t].op = "unwatch"
              /\ ~Has(watchers, call'[t].id)) =>
                /\ pc'[t] = "idle"
                /\ result'[t] = Ok(0)
                /\ UNCHANGED <<watchers, wst, wevents>>
       /\ \A h \in unwatched : wevents'[h] = wevents[h]]_vars

\* Watcher object h is in the watch registry under some id.
Registered(h) == \E id \in DOMAIN watchers : watchers[id] = h

\* C11: an event is sent on a watch's channel only while the watch is in the
\* registry; in particular none is sent between watcher.watch() and the
\* insert under the new id.
C11_EventsOnlyWhileRegistered ==
    [][\A h \in Handles :
          wevents'[h] # wevents[h] => Registered(h)]_vars

\* The path of every event sent on the channel of h, in order.
PathsSent(h) == [i \in DOMAIN wevents[h] |-> wevents[h][i].path]

\* The raw kinds for which the callback sends an event.
Emitting == {"Create", "Modify", "Remove"}

\* The paths the running callback of h has still to go through.
PathsPending(h) ==
    IF cb[h] # Idle /\ cb[h].kind \in Emitting THEN cb[h].paths ELSE <<>>

\* A path passes a configured extension list: the list is empty, or the path
\* has an extension that equals an entry of the list, letter case aside.
Passes(conf, p) ==
    \/ conf = <<>>
    \/ /\ Extension(p) # NoExt
       /\ \E i \in DOMAIN conf : Lower(conf[i]) = Lower(Extension(p))

\* The paths for which a raw notification is to give an event ("" stands
\* for the Error event of a raw error).
PathsDue(conf, r) ==
    IF r.kind = "Err" THEN <<"">>
    ELSE IF r.kind \in Emitting
            THEN SelectSeq(r.paths, LAMBDA p : Passes(conf, p))
            ELSE <<>>

RECURSIVE AllPathsDue(_, _)
AllPathsDue(conf, rs) ==
    IF rs = <<>> THEN <<>>
    ELSE PathsDue(conf, Head(rs)) \o AllPathsDue(conf, Tail(rs))

\* C12: of the paths of the raw events given to a watch, exactly those that
\* pass the configured extension list (compared in lower case; any path when
\* the list is empty; never a path without extension otherwise) get an
\* event, in order, and a raw event none of whose paths passes gets none.
C12_FilterByLowercasedExtension ==
    \A h \in Handles :
        PathsSent(h) \o PathsPending(h) = AllPathsDue(wconf[h], raws[h])

\* C12 witness: a watch configured with <<"MD">> was given a create of
\* Makefile and then a create of b.MD and c.txt, and has sent Created{b.MD}
\* and nothing else.
C12_Witness ==
    \E h \in Handles :
        /\ wconf[h] = <<"MD">>
        /\ raws[h] = <<RawEvent("Create", <<"Makefile">>),
                       RawEvent("Create", <<"b.MD", "c.txt">>)>>
        /\ cb[h] = Idle
        /\ wevents[h] = <<Created("b.MD")>>

\* The number of entries of q that are e.
RECURSIVE Count(_, _)
Count(q, e) ==
    IF q = <<>> THEN 0
    ELSE (IF Head(q) = e THEN 1 ELSE 0) + Count(Tail(q), e)

\* The callback of h is given an OS-level error in this step.
GivenError(h) == raws'[h] = Append(raws[h], RawError)

\* C13: a raw error given to a watch's callback puts exactly one Error event
\* on that watch's channel and changes neither the registry nor the watch
\* (it keeps watching, with the same filter), so the channel holds as many
\* Error events as the watch was given errors.
C13_WatchErrorIsReportedAndWatchGoesOn ==
    /\ [][\A h \in Handles : GivenError(h) =>
             /\ wevents'[h] = Append(wevents[h], WatchError)
             /\ UNCHANGED <<watchers, wnext_id, wst, wext, cb>>]_vars
    /\ [](\A h \in Handles :
             Count(wevents[h], WatchError) = Count(raws[h], RawError))

\* C13 witness: a registered watch was given an error and then a create of
\* a.md, and has sent Error and then Created{a.md}.
C13_Witness ==
    \E h \in Handles :
        /\ Registered(h)
        /\ wst[h] = "watching"
        /\ raws[h] = <<RawError, RawEvent("Create", <<"a.md">>)>>
        /\ wevents[h] = <<WatchError, Created("a.md")>>

\* Thread t invokes command op in this step.
Invoked(t, op) == call'[t].n # call[t].n /\ call'[t].op = op

\* Thread t takes a step of get_pty_cwd.
CwdStep(t) ==
    \/ Invoked(t, "cwd")
    \/ pc[t] \in {"g_pgrep", "g_lsof"} /\ pc'[t] # pc[t]

\* C14: get_pty_cwd returns Err for an id the registry does not hold, for a
\* session without pid and when the lsof query fails, and no step of it
\* changes the registry, the counter or any session.
C14_CwdFailsWithoutTouchingRegistry ==
    [][\A t \in Callers :
          /\ CwdStep(t) =>
                UNCHANGED <<instances, next_id, rl, events, ended, ptyIn>>
          /\ (Invoked(t, "cwd") /\ ~Has(instances, call'[t].id)) =>
                pc'[t] = "idle" /\ result'[t].tag = "Err"
          /\ (/\ Invoked(t, "cwd")
              /\ Has(instances, call'[t].id)
              /\ instances[call'[t].id].pid = "None") =>
                pc'[t] = "idle" /\ result'[t].tag = "Err"
          /\ (pc[t] = "g_lsof" /\ pc'[t] = "idle") =>
                (result'[t].tag = "Err") = (call'[t].os # "found")]_vars

\* C14 witness: a get_pty_cwd whose lsof exited with an error status has
\* returned Err, and its session is still registered.
C14_Witness ==
    \E t \in Callers :
        /\ pc[t] = "idle"
        /\ call[t].op = "cwd"
        /\ call[t].os = "status_error"
        /\ result[t] = Err("lsof returned error")
        /\ Has(instances, call[t].id)

\* An event without its content.
Bare(ev) == [type |-> ev.type, path |-> ev.path]

\* The events sent on the channel of h, without their contents.
Sent(h) == [i \in DOMAIN wevents[h] |-> Bare(wevents[h][i])]

\* The event type the spec gives a raw kind.
TypeOf(kind) ==
    CASE kind = "Create" -> "Created"
      [] kind = "Modify" -> "Changed"
      [] kind = "Remove" -> "Removed"

\* What the running callback of h has still to send.
Pending(h) ==
    [i \in DOMAIN PathsPending(h) |->
        [type |-> TypeOf(cb[h].kind), path |-> PathsPending(h)[i]]]

\* The events a raw notification is to give.
Due(conf, r) ==
    IF r.kind = "Err" THEN <<Bare(WatchError)>>
    ELSE [i \in DOMAIN PathsDue(conf, r) |->
             [type |-> TypeOf(r.kind), path |-> PathsDue(conf, r)[i]]]

RECURSIVE AllDue(_, _)
AllDue(conf, rs) ==
    IF rs = <<>> THEN <<>>
    ELSE Due(conf, Head(rs)) \o AllDue(conf, Tail(rs))

\* C15: every path of a raw event that passes the filter gets exactly one
\* event, Created for a create, Changed for a modify, Removed for a remove,
\* and none for any other kind; a Changed event carries the file's text, or
\* the empty string when the file could not be read, and is sent either way.
C15_OneTypedEventPerSurvivingPath ==
    \A h \in Handles :
        /\ Sent(h) \o Pending(h) = AllDue(wconf[h], raws[h])
        /\ \A i \in DOMAIN wevents[h] :
              IF wevents[h][i].type = "Changed"
                 THEN wevents[h][i].content \in {"text", ""}
                 ELSE wevents[h][i].content = ""

\* C15 witness: a watch was given a modify of a.md, whose read failed, and
\* then an access of a.md, and has sent Changed{a.md, ""} and nothing else.
C15_Witness ==
    \E h \in Handles :
        /\ raws[h] = <<RawEvent("Modify", <<"a.md">>),
                       RawEvent("Access", <<"a.md">>)>>
        /\ cb[h] = Idle
        /\ wevents[h] = <<Changed("a.md", "")>>

\* Map m without the entry of id, the other entries as they are.
Without(m, id) == [i \in DOMAIN m \ {id} |-> m[i]]

\* The read loop of session id takes its removal step.
LoopRemoves(id) == rl[id] = "lock" /\ rl'[id] = "exit"

\* C16: a removal by kill_pty(id) or by the read loop of id takes id, and
\* nothing else, out of the map, and removes nothing when id is not there;
\* an id that has left the map is never in it again, so each session is
\* taken out once, by whichever of the racing removals gets the lock first.
C16_SessionIsRemovedExactlyOnce ==
    [][/\ \A t \in Callers :
             Invoked(t, "kill") => instances' = Without(instances, call'[t].id)
       /\ \A id \in Ids :
             /\ LoopRemoves(id) => instances' = Without(instances, id)
             /\ (id \in inserted /\ ~Has(instances, id)) =>
                   ~Has(instances', id)]_vars

\* C16 witness: with two sessions registered, kill_pty took one out of the
\* map, its read loop then found nothing to remove and has ended, and the
\* other session is still registered.
C16_Witness ==
    \E t \in Callers, id \in Ids :
        /\ call[t].op = "kill" /\ call[t].id = id /\ call[t].hit
        /\ pc[t] = "idle"
        /\ rl[id] = "done"
        /\ \E other \in Ids \ {id} : Has(instances, other)

\* C17: a read error puts one Error event on the session's stream and ends
\* the reading; on every stream an Error event is either the last event so
\* far or the last but one with Exit after it, and an Error event at the
\* end of a stream is eventually followed by Exit.
C17_ErrorThenExit ==
    /\ [](\A id \in Ids : \A i \in DOMAIN events[id] :
             events[id][i] = ErrorEv =>
                \/ i = Len(events[id])
                \/ i + 1 = Len(events[id]) /\ events[id][i + 1] = ExitEv)
    /\ [][\A id \in Ids :
             (Emits(id) /\ Last(events'[id]) = ErrorEv) => rl'[id] = "lock"]_vars
    /\ \A id \in Ids :
          (events[id] # <<>> /\ Last(events[id]) = ErrorEv)
             ~> (events[id] # <<>> /\ Last(events[id]) = ExitEv)

\* C17 witness: a session has sent Output, then Error, then Exit.
C17_Witness ==
    \E id \in Ids : events[id] = <<Output(Chunk(1)), ErrorEv, ExitEv>>

\* The Output events of stream q, in order.
Outputs(q) == SelectSeq(q, LAMBDA ev : ev[1] = "Output")

\* C18: the Output events on a session's stream are, in order, one per
\* non-empty read of its read loop, each with exactly the bytes of that read.
C18_OutputPerReadInOrder ==
    \A id \in Ids :
        Outputs(events[id]) = [k \in 1..nreads[id] |-> Output(Chunk(k))]

\* C18 witness: a session's loop has read twice and the stream holds the two
\* reads as two Output events, in read order, and then Exit.
C18_Witness ==
    \E id \in Ids :
        /\ nreads[id] = 2
        /\ events[id] = <<Output(<<1, 2>>), Output(<<3, 4>>), ExitEv>>

\* The write or resize of thread t on a registered session fails in this
\* step with an I/O error.
IoFails(t) ==
    /\ call'[t].op \in {"write", "resize"}
    /\ call'[t].os = "failed"
    /\ call[t].os # "failed"

\* C19: a write_pty or resize_pty whose I/O fails returns Err, leaves the
\* registry as it is, the session under the same id, and gives the registry
\* lock back; a kill_pty on a registered id takes it out of the map.
C19_FailedIoLeavesSessionRegistered ==
    [][\A t \in Callers :
          /\ IoFails(t) =>
                /\ pc'[t] = "idle" /\ result'[t].tag = "Err"
                /\ instances' = instances
                /\ Has(instances', call'[t].id)
                /\ instHolder' = NoThread
                /\ UNCHANGED <<next_id, rl>>
          /\ (Invoked(t, "kill") /\ Has(instances, call'[t].id)) =>
                ~Has(instances', call'[t].id)]_vars

\* C19 witness: a write_pty on a session has returned an I/O error, and a
\* kill_pty on the same id has afterwards found the session and removed it.
C19_Witness ==
    \E t, u \in Callers :
        /\ call[t].op = "write" /\ call[t].os = "failed"
        /\ result[t].tag = "Err"
        /\ call[u].op = "kill" /\ call[u].id = call[t].id /\ call[u].hit
        /\ pc[u] = "idle"
        /\ ~Has(instances, call[t].id)

\* No entry of map m is given another value in this step (an entry may be
\* added or removed).
NoneReplaced(m, m2) ==
    \A id \in DOMAIN m \cap DOMAIN m2 : m2[id] = m[id]

\* C20: when create_pty or watch_directory is about to insert, the id it
\* holds is not in the map, and no step gives an id in a map another
\* session: an insert never replaces a live session.
C20_InsertNeverReplaces ==
    /\ [](\A t \in Callers :
             /\ pc[t] = "c_insert" => ~Has(instances, call[t].id)
             /\ pc[t] = "wd_insert" => ~Has(watchers, call[t].id))
    /\ [][/\ NoneReplaced(instances, instances')
          /\ NoneReplaced(watchers, watchers')]_vars

\* C20 witness: session 1 was created and killed, and a second create_pty
\* holds the lock and is about to insert id 2 into the empty map.
C20_Witness ==
    /\ \E t \in Callers : pc[t] = "c_insert" /\ call[t].id = 2
    /\ 1 \in killed
    /\ instances = <<>>

\* Thread t is using the writer or the master of the session it looked up.
UsesHandle(t) == pc[t] \in {"w_write", "w_flush", "r_resize"}

\* C21: while write_pty or resize_pty uses the handles of a session, the
\* session is in the registry and no step takes it out; the bytes of a
\* write reach the pty only of a registered session, and a write_pty that
\* does not find its session writes nothing.
C21_HandlesUsedOnlyWhileRegistered ==
    /\ [](\A t \in Callers : UsesHandle(t) =>
             Has(instances, call[t].id) /\ instHolder = Caller(t))
    /\ [][/\ \A t \in Callers : UsesHandle(t) => Has(instances', call[t].id)
          /\ \A id \in Ids : ptyIn'[id] # ptyIn[id] => Has(instances, id)
          /\ \A t \in Callers :
                (Invoked(t, "write") /\ ~Has(instances, call'[t].id)) =>
                   ptyIn' = ptyIn /\ pc'[t] = "idle"]_vars

\* C21 witness: a write_pty has delivered all its bytes and returned Ok, and
\* a kill_pty on the same session has then found the session and removed it.
C21_Witness ==
    \E t, u \in Callers, id \in Ids :
        /\ call[t].op = "write" /\ call[t].id = id /\ result[t] = Ok(0)
        /\ Len(writeLog[id]) = 1 /\ writeLog[id][1].st = "ok"
        /\ ptyIn[id] = writeLog[id][1].data
        /\ call[u].op = "kill" /\ call[u].id = id /\ call[u].hit
        /\ pc[u] = "idle"

\* ------------------------------------------------ the locks of both managers
\* The locking of a command does not depend on the values it is given, so
\* here every input has one value per outcome: one byte string to write,
\* ids a session can have, an empty extension list, one raw event and the
\* raw error, one failure per command and an empty read of the pty; every
\* early return and every failing OS call under a lock is kept.
OneOfEach ==
    /\ \A t \in Callers :
          /\ call'[t].data # <<1, 2>>
          /\ call'[t].id <= MaxSessions
          /\ call'[t].os \notin {"spawn_failed", "no_n_line"}
          /\ result'[t].msg \notin {"spawn", "take_writer", "clone_reader",
                                    "new", "watch"}
    /\ \A h \in Handles :
          /\ wconf'[h] = <<>>
          /\ \A i \in DOMAIN raws'[h] :
                raws'[h][i] \in {RawError, RawEvent("Create", <<"a.md">>)}
    /\ nreads' = nreads

NextLocks ==
    \/ \E t \in Callers : create_pty(t) /\ OneOfEach
    \/ \E t \in Callers : write_pty(t) /\ OneOfEach
    \/ \E t \in Callers : resize_pty(t) /\ OneOfEach
    \/ \E t \in Callers : kill_pty(t) /\ OneOfEach
    \/ \E t \in Callers : get_pty_cwd(t) /\ OneOfEach
    \/ \E id \in Ids : ReadLoop(id) /\ OneOfEach
    \/ \E id \in Ids : ChildExit(id)
    \/ \E t \in Callers : watch_directory(t) /\ OneOfEach
    \/ \E t \in Callers : unwatch_directory(t) /\ OneOfEach
    \/ \E h \in Handles : Callback(h) /\ OneOfEach

\* The steps that continue a watch command in progress.
ContinueWatch(t) ==
    \/ WatchLockId(t) \/ WatchAlloc(t) \/ WatchLock(t) \/ WatchInsert(t)
    \/ UnwatchDrop(t)

\* The backend thread goes on with the callback it is in.
FairnessWatch ==
    /\ \A t \in Callers : WF_vars(ContinueWatch(t))
    /\ \A h \in Handles : WF_vars(CbPath(h))

SpecLocks == Init /\ [][NextLocks]_vars /\ Fairness /\ FairnessWatch

Threads == {Caller(t) : t \in Callers} \cup {Reader(id) : id \in Ids}

\* The mutexes thread x holds.
Held(x) ==
    {m \in {"pty.next_id", "pty.instances", "watch.next_id", "watch.watchers"} :
        \/ m = "pty.next_id" /\ idHolder = x
        \/ m = "pty.instances" /\ instHolder = x
        \/ m = "watch.next_id" /\ widHolder = x
        \/ m = "watch.watchers" /\ wHolder = x}

\* Caller t is at a lock() of a command in progress.
WaitsForLock(t) == pc[t] \in {"c_lock_id", "c_lock_inst", "wd_lock_id", "wd_lock"}

AllFree ==
    /\ idHolder = NoThread /\ instHolder = NoThread
    /\ widHolder = NoThread /\ wHolder = NoThread

\* C22: no thread holds two of the managers' mutexes at once, a thread that
\* is at a lock() or between two commands holds none (so none is acquired
\* twice), and, the OS calls returning, every thread at a lock() gets the
\* lock and every mutex held is released: again and again no mutex is held
\* and no thread is at a lock().
C22_LocksAreDeadlockFree ==
    /\ [](\A x \in Threads : Cardinality(Held(x)) <= 1)
    /\ [](\A t \in Callers :
             (WaitsForLock(t) \/ pc[t] = "idle") => Held(Caller(t)) = {})
    /\ [](\A id \in Ids : rl[id] \in {"none", "read", "lock", "done"} =>
             Held(Reader(id)) = {})
    /\ []<>(/\ AllFree
             /\ \A t \in Callers : ~WaitsForLock(t)
             /\ \A id \in Ids : rl[id] # "lock")

\* C22 witness: a create_pty is at the lock() of the registry while another
\* thread holds that mutex inside an OS call.
C22_Witness ==
    \E t, u \in Callers :
        /\ pc[t] = "c_lock_inst"
        /\ InOsCall(u)
        /\ instHolder = Caller(u)

====
